---------------------------- MODULE Spec2Model ----------------------------
(***************************************************************************)
(* Model of repo_to_text_mcp_server.py: the inclusion filter               *)
(* (RepoToTextConverter._should_include_file), the two renderers           *)
(* (generate_xml_format, generate_shotgun_format) and the call_tool        *)
(* handlers that reach them.                                               *)
(*                                                                         *)
(* Python strings that the code inspects (paths, patterns) are sequences   *)
(* of one-character strings, so that fnmatch, `in`, replace and count are  *)
(* computed rather than assumed.  A rendered document is the sequence of   *)
(* entries of `lines` that the code joins with "\n".                       *)
(***************************************************************************)
EXTENDS Integers, Sequences, FiniteSets, TLC

(***************************************************************************)
(* The records of the model.  A Python str the code inspects is a Str.     *)
(***************************************************************************)
Str == Seq(STRING)

\* ProjectConfig, the fields the converter can read
ConfigType ==
  [exclude_patterns : Seq(Str), include_patterns : Seq(Str), max_file_size : Nat]

\* a tool call (name, arguments) or a direct use of the converter
RequestType ==
  [name : STRING, path : Str, format : STRING, exclusions : Seq(Str),
   config : ConfigType]

\* an entry of `lines`: template t filled with n, a and the values e
LineType == [t : STRING, n : Nat, a : Str, e : Seq(STRING)]

\* what a request returned
ResponseType == [status : {"none", "returned"}, text : Seq(LineType)]

\* one triple of os.walk
WalkEntryType == [root : Str, dirs : Seq(Str), files : Seq(Str)]

\* the outcome of opening and reading a file
ReadType == [ok : BOOLEAN, content : Str, error : STRING]

\* a media type, type/subtype
MimeType == [type : STRING, subtype : STRING]

\* the result of detect_project_type
ReportType == [types : Seq(STRING), main_type : STRING]

\* a call of detect_project_type: its argument and what it returned
AnalysisType == [path : Str, status : {"none", "called", "returned"}, report : ReportType]

\* a render in progress: the converter's arguments, the triple of os.walk the
\* loop body is at (root, the files still to come), the directories os.walk
\* has still to scan, whether the file at hand has passed the inclusion
\* test, the lines appended so far, and the files other processes have
\* deleted or rewritten since the render began
WalkerType ==
  [format : {"xml", "shotgun"}, status : {"none", "running", "returned"},
   root : Str, files : Seq(Str), root_path : Str,
   phase : {"structure", "contents"}, stack : Seq(Str), passed : BOOLEAN,
   lines : Seq(LineType), mutated : SUBSET Str]

\* the class attributes every call reads: ProjectConfig.DEFAULT_EXCLUSIONS and
\* TokenEstimator.TOKEN_RATIOS (a dict, as its items in declaration order)
ClassAttrsType == [DEFAULT_EXCLUSIONS : Seq(Str), TOKEN_RATIOS : Seq(Str \X Nat)]

\* a call of estimate_tokens: its arguments and what it returned
EstimatorType ==
  [status : {"none", "called", "returned"}, text : Str, provider : Str, tokens : Int]

\* the dict parse_gemini_response returns
SectionsType ==
  [overview : Str, architecture_changes : Seq(Str), implementation_steps : Seq(Str),
   file_modifications : Seq(Str), code_examples : Seq(Str), testing_strategy : Str,
   potential_issues : Seq(Str)]

\* a call of parse_gemini_response: its argument, the number of the line the
\* loop is at, and its local variables
SplitterType ==
  [status : {"none", "called", "returned"}, response : Str, line_no : Nat,
   current_section : STRING, current_content : Seq(Str), sections : SectionsType]

(***************************************************************************)
(* Bounds of the model.                                                    *)
(***************************************************************************)
\* at most this many files exist beneath the root
MaxFiles == 4
\* the texts given to estimate_tokens have up to this many characters, or 4000
MaxTextLen == 20
\* the responses given to parse_gemini_response have up to this many lines
MaxLines == 3
\* other processes delete or rewrite at most this many files during a render
MaxMutations == 2


(***************************************************************************)
(* State                                                                   *)
(***************************************************************************)
VARIABLES
  class_attrs, \* the class attributes, shared by every call the process serves
  rewritten    \* the files another process has rewritten since the start

(***************************************************************************)
(* String primitives of Python used by the code.                           *)
(***************************************************************************)
SEP == "/"

\* str.startswith
StartsWith(s, prefix) ==
  /\ Len(prefix) <= Len(s)
  /\ SubSeq(s, 1, Len(prefix)) = prefix

\* str.endswith
EndsWith(s, suffix) ==
  /\ Len(suffix) <= Len(s)
  /\ SubSeq(s, Len(s) - Len(suffix) + 1, Len(s)) = suffix

\* `sub in s`
Contains(sub, s) ==
  \E k \in 0..(Len(s) - Len(sub)) : SubSeq(s, k + 1, k + Len(sub)) = sub

\* str.count of a single character
RECURSIVE Count(_, _)
Count(s, ch) ==
  IF s = <<>> THEN 0
  ELSE (IF Head(s) = ch THEN 1 ELSE 0) + Count(Tail(s), ch)

\* str.replace(old, ''): every non-overlapping occurrence, left to right
RECURSIVE Remove(_, _)
Remove(s, old) ==
  IF old = <<>> \/ Len(s) < Len(old) THEN s
  ELSE IF SubSeq(s, 1, Len(old)) = old
       THEN Remove(SubSeq(s, Len(old) + 1, Len(s)), old)
       ELSE <<Head(s)>> \o Remove(Tail(s), old)

\* index of the last occurrence of ch in s, 0 when there is none (str.rfind + 1)
LastIndexOf(s, ch) ==
  IF \E i \in 1..Len(s) : s[i] = ch
  THEN CHOOSE i \in 1..Len(s) : s[i] = ch /\ \A j \in (i + 1)..Len(s) : s[j] # ch
  ELSE 0

\* os.path.basename
Basename(p) == SubSeq(p, LastIndexOf(p, SEP) + 1, Len(p))

\* os.path.dirname of a relative path without trailing separator
Dirname(p) == SubSeq(p, 1, LastIndexOf(p, SEP) - 1)

\* os.path.join(a, b) for a relative b
Join(a, b) ==
  IF a = <<>> THEN b
  ELSE IF a[Len(a)] = SEP THEN a \o b
  ELSE a \o <<SEP>> \o b

\* os.path.normpath restricted to dropping trailing separators
RECURSIVE NormPath(_)
NormPath(p) ==
  IF Len(p) > 1 /\ p[Len(p)] = SEP THEN NormPath(SubSeq(p, 1, Len(p) - 1)) ELSE p

\* os.path.relpath(path, start) for a path beneath start
RelPath(path, start) ==
  LET s == NormPath(start) IN SubSeq(NormPath(path), Len(s) + 2, Len(NormPath(path)))

\* fnmatch.fnmatch on POSIX (normcase is the identity): "*" matches any run of
\* characters, separators included, "?" one character, anything else itself.
\* Bracket expressions do not occur in any pattern of the model.
RECURSIVE FnMatchFrom(_, _, _, _)
FnMatchFrom(name, pat, i, j) ==
  IF j > Len(pat) THEN i > Len(name)
  ELSE IF pat[j] = "*"
       THEN \/ FnMatchFrom(name, pat, i, j + 1)
            \/ (i <= Len(name) /\ FnMatchFrom(name, pat, i + 1, j))
       ELSE /\ i <= Len(name)
            /\ (pat[j] = "?" \/ pat[j] = name[i])
            /\ FnMatchFrom(name, pat, i + 1, j + 1)

fnmatch(name, pat) == FnMatchFrom(name, pat, 1, 1)

(***************************************************************************)
(* ProjectConfig                                                           *)
(***************************************************************************)
DEFAULT_EXCLUSIONS ==
  << <<"n", "o", "d", "e", "_", "m", "o", "d", "u", "l", "e", "s", "/">>,  \* node_modules/
     <<"v", "e", "n", "v", "/">>,  \* venv/
     <<"e", "n", "v", "/">>,  \* env/
     <<".", "e", "n", "v", "/">>,  \* .env/
     <<"_", "_", "p", "y", "c", "a", "c", "h", "e", "_", "_", "/">>,  \* __pycache__/
     <<"v", "e", "n", "d", "o", "r", "/">>,  \* vendor/
     <<".", "b", "u", "n", "d", "l", "e", "/">>,  \* .bundle/
     <<"p", "k", "g", "/">>,  \* pkg/
     <<"t", "a", "r", "g", "e", "t", "/">>,  \* target/
     <<"d", "i", "s", "t", "/">>,  \* dist/
     <<"b", "u", "i", "l", "d", "/">>,  \* build/
     <<".", "g", "i", "t", "/">>,  \* .git/
     <<".", "s", "v", "n", "/">>,  \* .svn/
     <<".", "h", "g", "/">>,  \* .hg/
     <<".", "b", "z", "r", "/">>,  \* .bzr/
     <<".", "v", "s", "c", "o", "d", "e", "/">>,  \* .vscode/
     <<".", "i", "d", "e", "a", "/">>,  \* .idea/
     <<"*", ".", "s", "w", "p">>,  \* *.swp
     <<"*", ".", "s", "w", "o">>,  \* *.swo
     <<"*", "~">>,  \* *~
     <<".", "D", "S", "_", "S", "t", "o", "r", "e">>,  \* .DS_Store
     <<"T", "h", "u", "m", "b", "s", ".", "d", "b">>,  \* Thumbs.db
     <<"d", "e", "s", "k", "t", "o", "p", ".", "i", "n", "i">>,  \* desktop.ini
     <<"*", ".", "l", "o", "g">>,  \* *.log
     <<"l", "o", "g", "s", "/">>,  \* logs/
     <<"t", "e", "m", "p", "/">>,  \* temp/
     <<"t", "m", "p", "/">>,  \* tmp/
     <<".", "c", "a", "c", "h", "e", "/">>,  \* .cache/
     <<".", "t", "m", "p", "/">>,  \* .tmp/
     <<"*", ".", "p", "y", "c">>,  \* *.pyc
     <<"*", ".", "p", "y", "o">>,  \* *.pyo
     <<"*", ".", "c", "l", "a", "s", "s">>,  \* *.class
     <<"*", ".", "o">>,  \* *.o
     <<"*", ".", "s", "o">>,  \* *.so
     <<"*", ".", "e", "x", "e">>,  \* *.exe
     <<"*", ".", "d", "l", "l">>,  \* *.dll
     <<"*", ".", "o", "b", "j">>,  \* *.obj
     <<"*", ".", "b", "i", "n">>,  \* *.bin
     <<"*", ".", "d", "e", "b">>,  \* *.deb
     <<"*", ".", "r", "p", "m">>,  \* *.rpm
     <<"*", ".", "d", "m", "g">>,  \* *.dmg
     <<"*", ".", "m", "s", "i">>,  \* *.msi
     <<"*", ".", "j", "p", "g">>,  \* *.jpg
     <<"*", ".", "j", "p", "e", "g">>,  \* *.jpeg
     <<"*", ".", "p", "n", "g">>,  \* *.png
     <<"*", ".", "g", "i", "f">>,  \* *.gif
     <<"*", ".", "i", "c", "o">>,  \* *.ico
     <<"*", ".", "s", "v", "g">>,  \* *.svg
     <<"*", ".", "m", "p", "3">>,  \* *.mp3
     <<"*", ".", "m", "p", "4">>,  \* *.mp4
     <<"*", ".", "a", "v", "i">>,  \* *.avi
     <<"*", ".", "m", "o", "v">>,  \* *.mov
     <<"*", ".", "w", "m", "v">>,  \* *.wmv
     <<"*", ".", "z", "i", "p">>,  \* *.zip
     <<"*", ".", "t", "a", "r">>,  \* *.tar
     <<"*", ".", "t", "a", "r", ".", "g", "z">>,  \* *.tar.gz
     <<"*", ".", "r", "a", "r">>,  \* *.rar
     <<"*", ".", "7", "z">>,  \* *.7z
     <<"*", ".", "d", "b">>,  \* *.db
     <<"*", ".", "s", "q", "l", "i", "t", "e">>,  \* *.sqlite
     <<"*", ".", "s", "q", "l", "i", "t", "e", "3">>  \* *.sqlite3
  >>

\* max_file_size: int = 1024 * 1024
DEFAULT_MAX_FILE_SIZE == 1024 * 1024

\* ProjectConfig(): every list field starts empty (default_factory=list)
ProjectConfig ==
  [ exclude_patterns |-> <<>>,
    include_patterns |-> <<>>,
    max_file_size    |-> DEFAULT_MAX_FILE_SIZE ]

(***************************************************************************)
(* TokenEstimator                                                          *)
(***************************************************************************)
\* TOKEN_RATIOS.items(); a ratio is written in tenths, 4.5 as 45
TOKEN_RATIOS ==
  << << <<"o", "p", "e", "n", "a", "i">>,    40 >>,
     << <<"a", "n", "t", "h", "r", "o", "p", "i", "c">>, 45 >>,
     << <<"g", "o", "o", "g", "l", "e">>,    40 >>,
     << <<"g", "e", "n", "e", "r", "i", "c">>,   40 >> >>

\* str.lower, character by character
LowerChar(c) ==
  LET UPPER == <<"A", "B", "C", "D", "E", "F", "G", "H", "I", "J", "K", "L", "M", "N", "O", "P", "Q", "R", "S", "T", "U", "V", "W", "X", "Y", "Z">>
      LOWER == <<"a", "b", "c", "d", "e", "f", "g", "h", "i", "j", "k", "l", "m", "n", "o", "p", "q", "r", "s", "t", "u", "v", "w", "x", "y", "z">>
  IN IF \E i \in DOMAIN UPPER : UPPER[i] = c
     THEN LOWER[CHOOSE i \in DOMAIN UPPER : UPPER[i] = c]
     ELSE c
Lower(s) == [i \in DOMAIN s |-> LowerChar(s[i])]

\* dict.get(key, default) on the items of a dict
DictGet(items, key, default) ==
  IF \E i \in DOMAIN items : items[i][1] = key
  THEN items[CHOOSE i \in DOMAIN items : items[i][1] = key][2]
  ELSE default

\* a slip: the provider name is looked up as given
estimate_tokens_AsGiven(text, provider) ==
  LET table == class_attrs.TOKEN_RATIOS
      ratio == DictGet(table, provider, DictGet(table, <<"g", "e", "n", "e", "r", "i", "c">>, 0))
  IN (Len(text) * 10) \div ratio

\* int(len(text) / ratio): the quotient of two non-negative numbers, truncated
estimate_tokens(text, provider) ==
  LET table == class_attrs.TOKEN_RATIOS
      ratio == DictGet(table, Lower(provider), DictGet(table, <<"g", "e", "n", "e", "r", "i", "c">>, 0))
  IN (Len(text) * 10) \div ratio

NoEstimate == [status |-> "none", text |-> <<>>, provider |-> <<>>, tokens |-> 0]

(***************************************************************************)
(* GeminiTaskGenerator.parse_gemini_response                               *)
(***************************************************************************)
\* str.strip(): whitespace removed at both ends
RECURSIVE Strip(_)
Strip(s) ==
  LET Space(c) == c \in {" ", "\n", "\t", "\r"} IN
  IF s = <<>> THEN s
  ELSE IF Space(Head(s)) THEN Strip(Tail(s))
  ELSE IF Space(s[Len(s)]) THEN Strip(SubSeq(s, 1, Len(s) - 1))
  ELSE s

\* response.split('\n')
RECURSIVE Split(_)
Split(s) ==
  IF \A i \in DOMAIN s : s[i] # "\n" THEN <<s>>
  ELSE LET k == CHOOSE i \in DOMAIN s :
                  s[i] = "\n" /\ \A j \in 1..(i - 1) : s[j] # "\n"
       IN <<SubSeq(s, 1, k - 1)>> \o Split(SubSeq(s, k + 1, Len(s)))

\* '\n'.join(current_content)
RECURSIVE JoinLines(_)
JoinLines(ls) ==
  IF ls = <<>> THEN <<>>
  ELSE IF Len(ls) = 1 THEN ls[1]
  ELSE ls[1] \o <<"\n">> \o JoinLines(Tail(ls))

\* current_section = None
None == "None"

\* sections as first built
EmptySections ==
  [ overview             |-> <<>>,
    architecture_changes |-> <<>>,
    implementation_steps |-> <<>>,
    file_modifications   |-> <<>>,
    code_examples        |-> <<>>,
    testing_strategy     |-> <<>>,
    potential_issues     |-> <<>> ]

\* a slip: the test for "issue" comes before the test for "test"
HeaderOf_IssueFirst(line) ==
  LET lower_line == Strip(Lower(line))
      hash       == StartsWith(line, <<"#">>)
  IN IF Contains(<<"o", "v", "e", "r", "v", "i", "e", "w">>, lower_line) /\ hash THEN "overview"
     ELSE IF Contains(<<"a", "r", "c", "h", "i", "t", "e", "c", "t", "u", "r", "e">>, lower_line) /\ hash THEN "architecture_changes"
     ELSE IF Contains(<<"i", "m", "p", "l", "e", "m", "e", "n", "t", "a", "t", "i", "o", "n">>, lower_line) /\ Contains(<<"s", "t", "e", "p">>, lower_line) /\ hash
       THEN "implementation_steps"
     ELSE IF Contains(<<"f", "i", "l", "e">>, lower_line) /\ Contains(<<"m", "o", "d", "i", "f">>, lower_line) /\ hash
       THEN "file_modifications"
     ELSE IF Contains(<<"c", "o", "d", "e">>, lower_line) /\ Contains(<<"e", "x", "a", "m", "p", "l", "e">>, lower_line) /\ hash
       THEN "code_examples"
     ELSE IF Contains(<<"i", "s", "s", "u", "e">>, lower_line) /\ hash THEN "potential_issues"
     ELSE IF Contains(<<"t", "e", "s", "t">>, lower_line) /\ hash THEN "testing_strategy"
     ELSE None

\* the if / elif chain that detects section headers: the section a line
\* opens, None when it opens none
HeaderOf(line) ==
  LET lower_line == Strip(Lower(line))
      hash       == StartsWith(line, <<"#">>)
  IN IF Contains(<<"o", "v", "e", "r", "v", "i", "e", "w">>, lower_line) /\ hash THEN "overview"
     ELSE IF Contains(<<"a", "r", "c", "h", "i", "t", "e", "c", "t", "u", "r", "e">>, lower_line) /\ hash THEN "architecture_changes"
     ELSE IF Contains(<<"i", "m", "p", "l", "e", "m", "e", "n", "t", "a", "t", "i", "o", "n">>, lower_line) /\ Contains(<<"s", "t", "e", "p">>, lower_line) /\ hash
       THEN "implementation_steps"
     ELSE IF Contains(<<"f", "i", "l", "e">>, lower_line) /\ Contains(<<"m", "o", "d", "i", "f">>, lower_line) /\ hash
       THEN "file_modifications"
     ELSE IF Contains(<<"c", "o", "d", "e">>, lower_line) /\ Contains(<<"e", "x", "a", "m", "p", "l", "e">>, lower_line) /\ hash
       THEN "code_examples"
     ELSE IF Contains(<<"t", "e", "s", "t">>, lower_line) /\ hash THEN "testing_strategy"
     ELSE IF Contains(<<"i", "s", "s", "u", "e">>, lower_line) /\ hash THEN "potential_issues"
     ELSE None

\* a slip: a line met while no section is open is kept as overview
LoopBody_KeepsPreamble(s, line) ==
  IF HeaderOf(line) # None
  THEN [s EXCEPT !.current_section = HeaderOf(line), !.current_content = <<>>]
  ELSE LET content == Append(s.current_content, line) IN
       [s EXCEPT !.current_content = content,
                 !.sections.overview = Strip(JoinLines(content))]

\* the body of the loop over the lines, applied to the locals s
LoopBody(s, line) ==
  IF HeaderOf(line) # None
  THEN [s EXCEPT !.current_section = HeaderOf(line), !.current_content = <<>>]
  ELSE IF s.current_section # None
  THEN LET content == Append(s.current_content, line) IN
       [s EXCEPT !.current_content = content,
                 !.sections[s.current_section] =
                   IF s.current_section \in {"overview", "testing_strategy"}
                   THEN Strip(JoinLines(content))
                   ELSE content]
  ELSE s

NoSplit ==
  [ status          |-> "none",
    response        |-> <<>>,
    line_no         |-> 0,
    current_section |-> None,
    current_content |-> <<>>,
    sections        |-> EmptySections ]

(***************************************************************************)
(* The environment: the directory being converted, the files beneath it,   *)
(* the process's working directory and the order in which the operating    *)
(* system enumerates directory entries.                                    *)
(***************************************************************************)
ROOT_DIR  == <<"/", "p">>
OTHER_DIR == <<"/", "w">>

F_main    == <<"s", "r", "c", "/", "m", "a", "i", "n", ".", "t", "x", "t">>
F_dep     == <<"n", "o", "d", "e", "_", "m", "o", "d", "u", "l", "e", "s", "/", "d", "e", "p", ".", "j", "s">>
F_image   == <<"i", "m", "a", "g", "e", ".", "p", "n", "g">>
F_vendor  == <<"v", "e", "n", "d", "o", "r", "/", "d", "e", "e", "p", "/", "f", "i", "l", "e", ".", "t", "x", "t">>
F_readme  == <<"R", "E", "A", "D", "M", "E">>
F_package == <<"p", "a", "c", "k", "a", "g", "e", ".", "j", "s", "o", "n">>
F_big     == <<"b", "i", "g", ".", "t", "x", "t">>
F_secret  == <<"s", "e", "c", "r", "e", "t", ".", "t", "x", "t">>

\* a file in a directory named like the root: ROOT_DIR/p/notes.txt
F_nested  == <<"p", "/", "n", "o", "t", "e", "s", ".", "t", "x", "t">>

\* symbolic links that may exist beneath ROOT_DIR, by root-relative path
L_file   == <<"a", "l", "i", "a", "s", ".", "t", "x", "t">>   \* to the regular file big.txt of OTHER_DIR
L_broken == <<"g", "o", "n", "e", ".", "t", "x", "t">>    \* to a path at which nothing exists
L_dir    == <<"l", "i", "n", "k", "e", "d">>      \* to the directory OTHER_DIR
Links == {L_file, L_broken, L_dir}

\* the files that may exist beneath ROOT_DIR, by root-relative path
Universe ==
  {F_main, F_dep, F_image, F_vendor, F_readme, F_package, F_big, F_secret}

\* st_size of a file beneath ROOT_DIR
FileSize(p) ==
  CASE p = F_main   -> 50
    [] p = F_readme -> 5
    [] p = F_big    -> DEFAULT_MAX_FILE_SIZE + 1
    [] OTHER        -> 20

\* whether open(..., 'r') succeeds; F_secret has no read permission
\* (stat needs none, so getsize still answers for it)
Readable(p) == p # F_secret

\* what f.read() returns
FileContent(p) ==
  IF p \in rewritten THEN <<"r", "e", "w", "r", "i", "t", "t", "e", "n">>
  ELSE IF p = L_file THEN <<"t", "e", "x", "t", " ", "o", "f", " ">> \o Join(OTHER_DIR, F_big)
  ELSE <<"t", "e", "x", "t", " ", "o", "f", " ">> \o p

\* OTHER_DIR holds one file, a small one whose relative path is F_big
OtherFiles == {F_big}
OtherFileSize(p) == 10

\* the order of os.scandir: ascending or descending in this fixed ranking
ENTRY_ORDER ==
  << F_readme, F_big, F_image, <<"n", "o", "d", "e", "_", "m", "o", "d", "u", "l", "e", "s">>,
     F_dep, F_package, F_secret, <<"s", "r", "c">>, F_main,
     <<"v", "e", "n", "d", "o", "r">>, <<"v", "e", "n", "d", "o", "r", "/", "d", "e", "e", "p">>,
     F_vendor, L_file, L_broken, L_dir, <<"p">>, F_nested >>

Rank(p) == CHOOSE i \in DOMAIN ENTRY_ORDER : ENTRY_ORDER[i] = p

RECURSIVE Listed(_, _)
Listed(S, order) ==
  IF S = {} THEN <<>>
  ELSE LET first == CHOOSE x \in S : \A y \in S :
                      IF order = "asc" THEN Rank(x) <= Rank(y) ELSE Rank(x) >= Rank(y)
       IN <<first>> \o Listed(S \ {first}, order)

\* the directories implied by a file's path, nearest first
RECURSIVE Ancestors(_)
Ancestors(p) ==
  IF Dirname(p) = <<>> THEN {} ELSE {Dirname(p)} \cup Ancestors(Dirname(p))

DirsOf(fs) == UNION {Ancestors(p) : p \in fs}

\* os.path.exists / os.path.isdir / os.path.isfile of an absolute path
IsDir(fs, path) ==
  \/ NormPath(path) = ROOT_DIR
  \/ NormPath(path) = OTHER_DIR
  \/ /\ StartsWith(path, ROOT_DIR \o <<SEP>>)
     /\ RelPath(path, ROOT_DIR) \in DirsOf(fs) \cup (fs \cap {L_dir})

IsFile(fs, path) ==
  \/ /\ StartsWith(path, ROOT_DIR \o <<SEP>>)
     /\ path \in {Join(ROOT_DIR, p) : p \in fs \ {L_dir, L_broken}}
  \/ path \in {Join(OTHER_DIR, p) : p \in OtherFiles}

Exists(fs, path) == IsDir(fs, path) \/ IsFile(fs, path)

\* os.path.getsize(path) for a path resolved against the working directory wd;
\* OSError when no such file exists.  stat follows a symbolic link: the size
\* is that of the target, and a link to nothing is no file
OSError == -1
GetSize(fs, wd, path) ==
  LET abs == Join(wd, path) IN
  IF wd = ROOT_DIR /\ path \in fs \cap Links
  THEN CASE path = L_file -> OtherFileSize(F_big)
         [] path = L_dir  -> 4096
         [] OTHER         -> OSError
  ELSE IF wd = ROOT_DIR /\ path \in fs THEN FileSize(path)
  ELSE IF wd = ROOT_DIR /\ path \in DirsOf(fs) THEN 4096
  ELSE IF wd = OTHER_DIR /\ path \in OtherFiles THEN OtherFileSize(path)
  ELSE OSError

\* os.walk(top), top-down without following links: one (root, dirs, files)
\* triple per directory, each directory before its subdirectories; nothing at
\* all when top is not a directory (scandir's error is swallowed).  An entry
\* goes to dirs when entry.is_dir(), which follows links, and to files
\* otherwise; a directory is walked into unless it is a link
RECURSIVE WalkFrom(_, _, _, _)
WalkFrom(fs, order, top, d) ==
  LET below   == {x \in DirsOf(fs) : Dirname(x) = d}
      subdirs == below \cup {x \in fs \cap {L_dir} : Dirname(x) = d}
      files   == {x \in fs \ {L_dir} : Dirname(x) = d}
      here    == [ root  |-> IF d = <<>> THEN top ELSE Join(top, d),
                   dirs  |-> [i \in DOMAIN Listed(subdirs, order) |->
                                Basename(Listed(subdirs, order)[i])],
                   files |-> [i \in DOMAIN Listed(files, order) |->
                                Basename(Listed(files, order)[i])] ]
      RECURSIVE Below(_)
      Below(ds) == IF ds = <<>> THEN <<>>
                   ELSE WalkFrom(fs, order, top, Head(ds)) \o Below(Tail(ds))
  IN <<here>> \o Below(Listed(below, order))

Walk(fs, order, top) ==
  IF NormPath(top) = ROOT_DIR THEN WalkFrom(fs, order, top, <<>>) ELSE <<>>

(***************************************************************************)
(* mimetypes.guess_type(path)[0]: decided by the extension alone           *)
(***************************************************************************)
\* posixpath.splitext(path)[1]: from the last dot of the last component,
\* unless that dot leads the component
Ext(path) ==
  LET base == Basename(path)
      dot  == LastIndexOf(base, ".")
  IN IF dot <= 1 THEN <<>> ELSE SubSeq(base, dot, Len(base))

NoType == [type |-> "", subtype |-> ""]

\* types_map of the standard library for the extensions of the model;
\* an extension it does not know, or none, gives None
GuessType(path) ==
  CASE Ext(path) = <<".", "t", "x", "t">>      -> [type |-> "text", subtype |-> "plain"]
    [] Ext(path) = <<".", "j", "s">>           -> [type |-> "text", subtype |-> "javascript"]
    [] Ext(path) = <<".", "p", "n", "g">>      -> [type |-> "image", subtype |-> "png"]
    [] Ext(path) = <<".", "j", "s", "o", "n">> -> [type |-> "application", subtype |-> "json"]
    [] OTHER                                   -> NoType

(***************************************************************************)
(* RepoToTextConverter._should_include_file                                *)
(***************************************************************************)
\* fnmatch.fnmatch(file_path, pattern) or pattern in file_path
MatchesRule(file_path, pattern) ==
  fnmatch(file_path, pattern) \/ Contains(pattern, file_path)

\* the loop over a list of patterns: some pattern matches
ExcludedByRule(file_path, patterns) ==
  \E i \in DOMAIN patterns : MatchesRule(file_path, patterns[i])

\* the paths of Universe that DEFAULT_EXCLUSIONS excludes (computed once)
DefaultExcluded == {p \in Universe \cup Links : ExcludedByRule(p, DEFAULT_EXCLUSIONS)}

\* the loop over config.exclude_patterns + config.DEFAULT_EXCLUSIONS; the
\* attribute is looked up on the class at the time of the call
ExcludedByConfig(config, file_path) ==
  \/ ExcludedByRule(file_path, config.exclude_patterns)
  \/ IF class_attrs.DEFAULT_EXCLUSIONS = DEFAULT_EXCLUSIONS /\ file_path \in Universe \cup Links
     THEN file_path \in DefaultExcluded
     ELSE ExcludedByRule(file_path, class_attrs.DEFAULT_EXCLUSIONS)

\* the binary-file test
NonTextType(file_path) ==
  GuessType(file_path) # NoType /\ GuessType(file_path).type # "text"

\* the size test: getsize is given the path as passed in, which the renderers
\* make relative to the root, so it resolves against the working directory
SizeRejects(config, fs, wd, file_path) ==
  LET size == GetSize(fs, wd, file_path) IN
  IF size = OSError THEN TRUE ELSE size > config.max_file_size

_should_include_file(config, fs, wd, file_path) ==
  IF ExcludedByConfig(config, file_path) THEN FALSE
  ELSE IF NonTextType(file_path) THEN FALSE
  ELSE IF SizeRejects(config, fs, wd, file_path) THEN FALSE
  ELSE TRUE

(***************************************************************************)
(* Output lines.  An entry of `lines` is the template of the f-string that *)
(* produced it and the values filled in: n the number of leading spaces    *)
(* (or a count), a the path or text, e any other values.                   *)
(***************************************************************************)
Line(t, n, a, e) == [t |-> t, n |-> n, a |-> a, e |-> e]
Text(t) == Line(t, 0, <<>>, <<>>)
Arg(t, a) == Line(t, 0, a, <<>>)

\* with open(file_path, 'r', encoding='utf-8', errors='ignore') as f: f.read()
\* errors='ignore' leaves only the failure to open the file
EACCES == "[Errno 13] Permission denied"
ENOENT == "[Errno 2] No such file or directory"
ReadFile(fs, file_path) ==
  LET rel == RelPath(file_path, ROOT_DIR) IN
  IF rel \notin fs \/ rel = L_broken
  THEN [ok |-> FALSE, content |-> <<>>, error |-> ENOENT]
  ELSE IF Readable(rel)
  THEN [ok |-> TRUE, content |-> FileContent(rel), error |-> ""]
  ELSE [ok |-> FALSE, content |-> <<>>, error |-> EACCES]

(***************************************************************************)
(* RepoToTextConverter.generate_xml_format                                 *)
(***************************************************************************)
\* the inner loop of the directory-structure pass: one line per included file
RECURSIVE StructureFiles(_, _, _, _, _, _, _)
StructureFiles(config, fs, wd, root_path, root, files, sub_indent) ==
  IF files = <<>> THEN <<>>
  ELSE LET file     == Head(files)
           rel_path == RelPath(Join(root, file), root_path)
       IN (IF _should_include_file(config, fs, wd, rel_path)
           THEN <<Line("{sub_indent}{file}", sub_indent, file, <<>>)>>
           ELSE <<>>)
          \o StructureFiles(config, fs, wd, root_path, root, Tail(files), sub_indent)

\* the directory-structure pass: every directory os.walk yields is listed
RECURSIVE StructureLines(_, _, _, _, _)
StructureLines(config, fs, wd, root_path, walk) ==
  IF walk = <<>> THEN <<>>
  ELSE LET root  == Head(walk).root
           level == Count(Remove(root, root_path), SEP)
       IN <<Line("{indent}{basename}/", 2 * level, Basename(root), <<>>)>>
          \o StructureFiles(config, fs, wd, root_path, root, Head(walk).files,
                            2 * (level + 1))
          \o StructureLines(config, fs, wd, root_path, Tail(walk))

\* what the try/except of the content pass appends for one included file
XmlBlock(fs, file_path, rel_path) ==
  LET r == ReadFile(fs, file_path) IN
  IF r.ok
  THEN << Arg("<content full_path=\"{rel_path}\">", rel_path),
          Arg("{content}", r.content),
          Text("</content>"),
          Text("") >>
  ELSE << Line("<!-- Error reading {rel_path}: {str(e)} -->", 0, rel_path, <<r.error>>) >>

RECURSIVE XmlFiles(_, _, _, _, _, _)
XmlFiles(config, fs, wd, root_path, root, files) ==
  IF files = <<>> THEN <<>>
  ELSE LET file_path == Join(root, Head(files))
           rel_path  == RelPath(file_path, root_path)
       IN (IF _should_include_file(config, fs, wd, rel_path)
           THEN XmlBlock(fs, file_path, rel_path)
           ELSE <<>>)
          \o XmlFiles(config, fs, wd, root_path, root, Tail(files))

RECURSIVE XmlContents(_, _, _, _, _)
XmlContents(config, fs, wd, root_path, walk) ==
  IF walk = <<>> THEN <<>>
  ELSE XmlFiles(config, fs, wd, root_path, Head(walk).root, Head(walk).files)
       \o XmlContents(config, fs, wd, root_path, Tail(walk))

\* a slip: the directory-structure section is closed after the file contents
generate_xml_format_LateClose(config, fs, wd, order, root_path) ==
  << Text("<repo-to-text>"),
     Arg("Directory: {basename}", Basename(root_path)),
     Text(""),
     Text("<directory_structure>") >>
  \o StructureLines(config, fs, wd, root_path, Walk(fs, order, root_path))
  \o XmlContents(config, fs, wd, root_path, Walk(fs, order, root_path))
  \o << Text("</directory_structure>"),
        Text(""),
        Text("</repo-to-text>") >>

generate_xml_format(config, fs, wd, order, root_path) ==
  << Text("<repo-to-text>"),
     Arg("Directory: {basename}", Basename(root_path)),
     Text(""),
     Text("<directory_structure>") >>
  \o StructureLines(config, fs, wd, root_path, Walk(fs, order, root_path))
  \o << Text("</directory_structure>"),
        Text("") >>
  \o XmlContents(config, fs, wd, root_path, Walk(fs, order, root_path))
  \o << Text("</repo-to-text>") >>

(***************************************************************************)
(* RepoToTextConverter.generate_shotgun_format                             *)
(***************************************************************************)
\* a slip: the end delimiter is appended before the content
ShotgunBlock_EndFirst(fs, file_path, rel_path) ==
  LET r == ReadFile(fs, file_path) IN
  IF r.ok
  THEN << Arg("*#*#*{rel_path}*#*#*begin*#*#*", rel_path),
          Text("*#*#*end*#*#*"),
          Arg("{content}", r.content),
          Text("") >>
  ELSE <<>>

\* what the try/except appends for one included file: on failure, nothing
ShotgunBlock(fs, file_path, rel_path) ==
  LET r == ReadFile(fs, file_path) IN
  IF r.ok
  THEN << Arg("*#*#*{rel_path}*#*#*begin*#*#*", rel_path),
          Arg("{content}", r.content),
          Text("*#*#*end*#*#*"),
          Text("") >>
  ELSE <<>>

\* a slip: the inclusion test is left out of the loop
RECURSIVE ShotgunFiles_Unfiltered(_, _, _, _, _, _)
ShotgunFiles_Unfiltered(config, fs, wd, root_path, root, files) ==
  IF files = <<>> THEN <<>>
  ELSE LET file_path == Join(root, Head(files))
           rel_path  == RelPath(file_path, root_path)
       IN ShotgunBlock(fs, file_path, rel_path)
          \o ShotgunFiles_Unfiltered(config, fs, wd, root_path, root, Tail(files))

RECURSIVE ShotgunFiles(_, _, _, _, _, _)
ShotgunFiles(config, fs, wd, root_path, root, files) ==
  IF files = <<>> THEN <<>>
  ELSE LET file_path == Join(root, Head(files))
           rel_path  == RelPath(file_path, root_path)
       IN (IF _should_include_file(config, fs, wd, rel_path)
           THEN ShotgunBlock(fs, file_path, rel_path)
           ELSE <<>>)
          \o ShotgunFiles(config, fs, wd, root_path, root, Tail(files))

RECURSIVE ShotgunContents(_, _, _, _, _)
ShotgunContents(config, fs, wd, root_path, walk) ==
  IF walk = <<>> THEN <<>>
  ELSE ShotgunFiles(config, fs, wd, root_path, Head(walk).root, Head(walk).files)
       \o ShotgunContents(config, fs, wd, root_path, Tail(walk))

generate_shotgun_format(config, fs, wd, order, root_path) ==
  ShotgunContents(config, fs, wd, root_path, Walk(fs, order, root_path))

(***************************************************************************)
(* RepoAnalyzer.detect_project_type                                        *)
(***************************************************************************)
\* the indicators.items() of detect_project_type: (proj_type, files) in declaration order
indicators ==
  << << "python",
        << <<"r", "e", "q", "u", "i", "r", "e", "m", "e", "n", "t", "s", ".", "t", "x", "t">>,  \* requirements.txt
           <<"s", "e", "t", "u", "p", ".", "p", "y">>,  \* setup.py
           <<"p", "y", "p", "r", "o", "j", "e", "c", "t", ".", "t", "o", "m", "l">>,  \* pyproject.toml
           <<"P", "i", "p", "f", "i", "l", "e">> >> >>,  \* Pipfile
     << "node",
        << <<"p", "a", "c", "k", "a", "g", "e", ".", "j", "s", "o", "n">>,  \* package.json
           <<"y", "a", "r", "n", ".", "l", "o", "c", "k">>,  \* yarn.lock
           <<"p", "a", "c", "k", "a", "g", "e", "-", "l", "o", "c", "k", ".", "j", "s", "o", "n">> >> >>,  \* package-lock.json
     << "react",
        << <<"p", "a", "c", "k", "a", "g", "e", ".", "j", "s", "o", "n">> >> >>,  \* package.json
     << "vue",
        << <<"v", "u", "e", ".", "c", "o", "n", "f", "i", "g", ".", "j", "s">>,  \* vue.config.js
           <<"n", "u", "x", "t", ".", "c", "o", "n", "f", "i", "g", ".", "j", "s">> >> >>,  \* nuxt.config.js
     << "go",
        << <<"g", "o", ".", "m", "o", "d">>,  \* go.mod
           <<"g", "o", ".", "s", "u", "m">> >> >>,  \* go.sum
     << "rust",
        << <<"C", "a", "r", "g", "o", ".", "t", "o", "m", "l">>,  \* Cargo.toml
           <<"C", "a", "r", "g", "o", ".", "l", "o", "c", "k">> >> >>,  \* Cargo.lock
     << "java",
        << <<"p", "o", "m", ".", "x", "m", "l">>,  \* pom.xml
           <<"b", "u", "i", "l", "d", ".", "g", "r", "a", "d", "l", "e">>,  \* build.gradle
           <<"g", "r", "a", "d", "l", "e", ".", "b", "u", "i", "l", "d">> >> >>,  \* gradle.build
     << "dotnet",
        << <<"*", ".", "c", "s", "p", "r", "o", "j">>,  \* *.csproj
           <<"*", ".", "s", "l", "n">> >> >>  \* *.sln
  >>

\* any(Path(path).rglob(file_pattern)): some entry beneath path, file or
\* directory, has a name matching the pattern
RGlobAny(fs, path, file_pattern) ==
  /\ NormPath(path) = ROOT_DIR
  /\ \E x \in fs \cup DirsOf(fs) : fnmatch(Basename(x), file_pattern)

\* the inner loop with its break: the type is detected once
TypeDetected(fs, path, files) ==
  \E j \in DOMAIN files : RGlobAny(fs, path, files[j])

RECURSIVE DetectFrom(_, _, _)
DetectFrom(fs, path, table) ==
  IF table = <<>> THEN <<>>
  ELSE (IF TypeDetected(fs, path, Head(table)[2])
        THEN <<Head(table)[1]>> ELSE <<>>)
       \o DetectFrom(fs, path, Tail(table))

\* a slip: main_type is the last detected type
detect_project_type_LastType(fs, path) ==
  LET detected == DetectFrom(fs, path, indicators) IN
  [ types     |-> detected,
    main_type |-> IF detected # <<>> THEN detected[Len(detected)] ELSE "generic" ]

\* suggested_exclusions is not modelled
detect_project_type(fs, path) ==
  LET detected == DetectFrom(fs, path, indicators) IN
  [ types     |-> detected,
    main_type |-> IF detected # <<>> THEN detected[1] ELSE "generic" ]

VARIABLES
  tree,      \* the files beneath ROOT_DIR, by root-relative path
  cwd,       \* the working directory of the server process
  scandir,   \* the order in which directory entries are enumerated
  pc,        \* "idle", "pending" (a request is being served) or "done"
  request,   \* the request being served, or the last one served
  config,    \* the ProjectConfig of the converter serving the request
  response,  \* what the request returned
  earlier,   \* the exclusions arguments of the requests served before
  estimator, \* a call of TokenEstimator.estimate_tokens
  splitter,  \* a call of GeminiTaskGenerator.parse_gemini_response
  analysis,  \* a call of RepoAnalyzer.detect_project_type
  walker     \* a render in progress, statement by statement

vars ==
  <<class_attrs, rewritten, tree, cwd, scandir, pc, request, config, response, earlier,
    estimator, splitter, analysis, walker>>

(***************************************************************************)
(* Requests and responses                                                  *)
(***************************************************************************)
\* arguments.get("format", ...) finds no "format" key
ABSENT == "<absent>"

NoRequest ==
  [name |-> "none", path |-> <<>>, format |-> ABSENT, exclusions |-> <<>>,
   config |-> ProjectConfig]

NoResponse == [status |-> "none", text |-> <<>>]
Returned(lines) == [status |-> "returned", text |-> lines]

\* the inputs the model draws requests from
RequestPaths ==
  { ROOT_DIR,                       \* the root
    ROOT_DIR \o <<SEP>>,            \* the root, spelled with a trailing separator
    Join(ROOT_DIR, F_readme),       \* a regular file, when it exists
    <<"/", "n", "o", "p", "e">> }   \* nothing
Formats == {ABSENT, "xml", "shotgun", "markdown", "bogus"}
ExclusionLists ==
  { <<>>,
    << <<"s", "r", "c", "/">> >>,          \* src/
    << <<"*", ".", "t", "x", "t">> >> }    \* *.txt
Configs ==
  { ProjectConfig,
    [ProjectConfig EXCEPT !.include_patterns = << <<"*", ".", "t", "x", "t">> >>],
    [ProjectConfig EXCEPT !.max_file_size = 10] }

Trees == {fs \in SUBSET Universe : Cardinality(fs) <= MaxFiles}

NoAnalysis ==
  [path |-> <<>>, status |-> "none", report |-> [types |-> <<>>, main_type |-> ""]]
NoWalk ==
  [ format    |-> "xml",
    status    |-> "none",
    root      |-> <<>>,
    files     |-> <<>>,
    root_path |-> <<>>,
    phase     |-> "structure",
    stack     |-> <<>>,
    passed    |-> FALSE,
    lines     |-> <<>>,
    mutated   |-> {} ]

\* the class bodies have run: the process has imported the module
Imported ==
  class_attrs = [DEFAULT_EXCLUSIONS |-> DEFAULT_EXCLUSIONS, TOKEN_RATIOS |-> TOKEN_RATIOS]

\* no request has been served
ServerIdle ==
  /\ pc = "idle"
  /\ request = NoRequest
  /\ config = ProjectConfig
  /\ response = NoResponse
  /\ earlier = {}

\* none of the classes has been called directly, and no other process has
\* touched the files
NoCalls ==
  /\ rewritten = {}
  /\ estimator = NoEstimate
  /\ splitter = NoSplit
  /\ analysis = NoAnalysis
  /\ walker = NoWalk

Init ==
  /\ Imported
  /\ tree \in Trees
  /\ cwd \in {ROOT_DIR, OTHER_DIR}
  /\ scandir \in {"asc", "desc"}
  /\ ServerIdle
  /\ NoCalls

(***************************************************************************)
(* Requests arriving: a tool call of the MCP client, or a direct use of    *)
(* RepoToTextConverter with a configuration of the caller's own.           *)
(***************************************************************************)
Arrive(r) ==
  /\ pc \in {"idle", "done"}
  /\ pc' = "pending"
  /\ request' = r
  /\ config' = ProjectConfig
  /\ response' = NoResponse
  /\ UNCHANGED <<class_attrs, rewritten, tree, cwd, scandir, earlier>>
  /\ UNCHANGED <<estimator, splitter, analysis, walker>>

Request_generate_repo_context ==
  \E path \in RequestPaths, format \in Formats, exclusions \in ExclusionLists :
    Arrive([name |-> "generate_repo_context", path |-> path, format |-> format,
            exclusions |-> exclusions, config |-> ProjectConfig])

Request_analyze_project ==
  \E path \in RequestPaths :
    Arrive([name |-> "analyze_project", path |-> path, format |-> ABSENT,
            exclusions |-> <<>>, config |-> ProjectConfig])

Request_converter ==
  \E c \in Configs, format \in {"xml", "shotgun"} :
    Arrive([name |-> "RepoToTextConverter", path |-> ROOT_DIR, format |-> format,
            exclusions |-> <<>>, config |-> c])

(***************************************************************************)
(* call_tool                                                               *)
(***************************************************************************)
PathError(path) == <<Arg("Error: Path '{path}' does not exist", path)>>

\* a slip: the else branch falls to the other renderer
RenderAs_ElseShotgun(format_type, c, fs, wd, order, path) ==
  IF format_type = "xml" THEN generate_xml_format(c, fs, wd, order, path)
  ELSE generate_shotgun_format(c, fs, wd, order, path)

\* the if / elif / else over format_type
RenderAs(format_type, c, fs, wd, order, path) ==
  IF format_type = "xml" THEN generate_xml_format(c, fs, wd, order, path)
  ELSE IF format_type = "shotgun" THEN generate_shotgun_format(c, fs, wd, order, path)
  ELSE generate_xml_format(c, fs, wd, order, path)

\* a slip: the exclusions are added to the list of the converter before
BuildConfig_Accumulating(exclusions) ==
  [config EXCEPT !.exclude_patterns = @ \o exclusions]

\* config = ProjectConfig(); config.exclude_patterns.extend(exclusions)
BuildConfig(exclusions) ==
  [ProjectConfig EXCEPT !.exclude_patterns = @ \o exclusions]

CallTool_generate_repo_context ==
  /\ pc = "pending"
  /\ request.name = "generate_repo_context"
  /\ LET path        == request.path
         format_type == IF request.format = ABSENT THEN "xml" ELSE request.format
     IN IF ~Exists(tree, path)
        THEN /\ response' = Returned(PathError(path))
             /\ config' = config
        ELSE /\ config' = BuildConfig(request.exclusions)
             /\ response' = Returned(RenderAs(format_type, config', tree, cwd,
                                              scandir, path))
  /\ pc' = "done"
  /\ UNCHANGED <<class_attrs, rewritten, tree, cwd, scandir, request, earlier>>
  /\ UNCHANGED <<estimator, splitter, analysis, walker>>

\* the file count of the os.walk loop
RECURSIVE TotalFiles(_)
TotalFiles(walk) ==
  IF walk = <<>> THEN 0 ELSE Len(Head(walk).files) + TotalFiles(Tail(walk))

\* the report; its file-type distribution and suggested-exclusion sections
\* are not modelled
AnalysisReport(fs, order, path) ==
  LET project_info == detect_project_type(fs, path) IN
  << Text("# Project Analysis"),
     Text(""),
     Text("## Overview"),
     Line("- **Total Files**: {total_files:,}", TotalFiles(Walk(fs, order, path)), <<>>, <<>>),
     Arg("- **Root Path**: {path}", path),
     Line("- **Detected Type(s)**: {types}", 0, <<>>,
          IF project_info.types # <<>> THEN project_info.types ELSE <<"Generic">>) >>

CallTool_analyze_project ==
  /\ pc = "pending"
  /\ request.name = "analyze_project"
  /\ response' = IF ~Exists(tree, request.path)
                 THEN Returned(PathError(request.path))
                 ELSE Returned(AnalysisReport(tree, scandir, request.path))
  /\ pc' = "done"
  /\ UNCHANGED <<class_attrs, rewritten, tree, cwd, scandir, request, config, earlier>>
  /\ UNCHANGED <<estimator, splitter, analysis, walker>>

\* RepoToTextConverter(config).generate_xml_format(root_path), or
\* .generate_shotgun_format(root_path)
Converter_render ==
  /\ pc = "pending"
  /\ request.name = "RepoToTextConverter"
  /\ config' = request.config
  /\ response' = Returned(IF request.format = "shotgun"
                          THEN generate_shotgun_format(config', tree, cwd, scandir, request.path)
                          ELSE generate_xml_format(config', tree, cwd, scandir, request.path))
  /\ pc' = "done"
  /\ UNCHANGED <<class_attrs, rewritten, tree, cwd, scandir, request, earlier>>
  /\ UNCHANGED <<estimator, splitter, analysis, walker>>

Next ==
  \/ Request_generate_repo_context
  \/ Request_analyze_project
  \/ Request_converter
  \/ CallTool_generate_repo_context
  \/ CallTool_analyze_project
  \/ Converter_render

Spec == Init /\ [][Next]_vars

(***************************************************************************)
(* Before a direct call of one of the classes: no request is being served  *)
(* and the root is empty.                                                  *)
(***************************************************************************)
DirectCallInit ==
  /\ Imported
  /\ tree = {}
  /\ cwd = ROOT_DIR
  /\ scandir = "asc"
  /\ ServerIdle
  /\ NoCalls

(***************************************************************************)
(* TokenEstimator.estimate_tokens(text, provider), called directly         *)
(***************************************************************************)
Texts == {[i \in 1..n |-> "a"] : n \in (0..MaxTextLen) \cup {4000}}
Providers ==
  { <<"o", "p", "e", "n", "a", "i">>, <<"a", "n", "t", "h", "r", "o", "p", "i", "c">>, <<"g", "o", "o", "g", "l", "e">>, <<"g", "e", "n", "e", "r", "i", "c">>,
    <<"O", "p", "e", "n", "A", "I">>, <<"A", "n", "t", "h", "r", "o", "p", "i", "c">>, <<"m", "i", "s", "t", "r", "a", "l">>, <<>> }

Estimator_call ==
  /\ estimator.status \in {"none", "returned"}
  /\ \E text \in Texts, provider \in Providers :
       estimator' = [status |-> "called", text |-> text, provider |-> provider,
                     tokens |-> 0]
  /\ UNCHANGED <<class_attrs, rewritten, tree, cwd, scandir, pc, request, config, response, earlier>>
  /\ UNCHANGED <<splitter, analysis, walker>>

Estimator_return ==
  /\ estimator.status = "called"
  /\ estimator' = [estimator EXCEPT
                     !.status = "returned",
                     !.tokens = estimate_tokens(estimator.text, estimator.provider)]
  /\ UNCHANGED <<class_attrs, rewritten, tree, cwd, scandir, pc, request, config, response, earlier>>
  /\ UNCHANGED <<splitter, analysis, walker>>

EstimateNext ==
  \/ Estimator_call
  \/ Estimator_return

EstimateSpec == DirectCallInit /\ [][EstimateNext]_vars

(***************************************************************************)
(* GeminiTaskGenerator.parse_gemini_response(response), called directly    *)
(***************************************************************************)
\* the lines the responses are made of
ResponseLines ==
  { <<"#", " ", "O", "v", "e", "r", "v", "i", "e", "w">>,
    <<"#", "#", " ", "A", "r", "c", "h", "i", "t", "e", "c", "t", "u", "r", "e">>,
    <<"#", "#", "#", " ", "I", "m", "p", "l", "e", "m", "e", "n", "t", "a", "t", "i", "o", "n", " ", "S", "t", "e", "p", "s">>,
    <<"#", "#", " ", "F", "i", "l", "e", " ", "M", "o", "d", "i", "f", "i", "c", "a", "t", "i", "o", "n", "s">>,
    <<"#", "#", " ", "C", "o", "d", "e", " ", "E", "x", "a", "m", "p", "l", "e", "s">>,
    <<"#", "#", " ", "T", "e", "s", "t", "i", "n", "g", " ", "S", "t", "r", "a", "t", "e", "g", "y">>,
    <<"#", "#", " ", "P", "o", "t", "e", "n", "t", "i", "a", "l", " ", "I", "s", "s", "u", "e", "s">>,
    <<"#", "#", " ", "A", "r", "c", "h", "i", "t", "e", "c", "t", "u", "r", "e", " ", "O", "v", "e", "r", "v", "i", "e", "w">>,    \* two sets of keywords
    <<"#", "#", " ", "T", "e", "s", "t", " ", "I", "s", "s", "u", "e", "s">>,              \* two sets of keywords
    <<"#", "#", " ", "I", "m", "p", "l", "e", "m", "e", "n", "t", "a", "t", "i", "o", "n">>,           \* one keyword of two
    <<"R", "u", "n", " ", "u", "n", "i", "t", " ", "t", "e", "s", "t", "s", ".">>,
    <<"O", "v", "e", "r", "v", "i", "e", "w", " ", "o", "f", " ", "t", "e", "s", "t", "s">>,           \* keywords, no heading marker
    <<" ", " ", "i", "n", "d", "e", "n", "t", "e", "d", " ">> }

Responses ==
  {JoinLines(ls) : ls \in UNION {[1..n -> ResponseLines] : n \in 0..MaxLines}}

Splitter_call ==
  /\ splitter.status = "none"
  /\ \E text \in Responses :
       splitter' = [NoSplit EXCEPT !.status = "called", !.response = text, !.line_no = 1]
  /\ UNCHANGED <<class_attrs, rewritten, tree, cwd, scandir, pc, request, config, response, earlier>>
  /\ UNCHANGED <<estimator, analysis, walker>>

\* one iteration of the loop
Splitter_line ==
  /\ splitter.status = "called"
  /\ splitter.line_no <= Len(Split(splitter.response))
  /\ splitter' = [LoopBody(splitter, Split(splitter.response)[splitter.line_no])
                    EXCEPT !.line_no = @ + 1]
  /\ UNCHANGED <<class_attrs, rewritten, tree, cwd, scandir, pc, request, config, response, earlier>>
  /\ UNCHANGED <<estimator, analysis, walker>>

\* return sections
Splitter_return ==
  /\ splitter.status = "called"
  /\ splitter.line_no > Len(Split(splitter.response))
  /\ splitter' = [splitter EXCEPT !.status = "returned"]
  /\ UNCHANGED <<class_attrs, rewritten, tree, cwd, scandir, pc, request, config, response, earlier>>
  /\ UNCHANGED <<estimator, analysis, walker>>

SplitNext ==
  \/ Splitter_call
  \/ Splitter_line
  \/ Splitter_return

SplitSpec == DirectCallInit /\ [][SplitNext]_vars

(***************************************************************************)
(* RepoAnalyzer.detect_project_type(path), called directly                 *)
(***************************************************************************)
\* the files that may exist beneath the root of a classified project
MarkerFiles ==
  { <<"s", "e", "t", "u", "p", ".", "p", "y">>, F_package, <<"s", "u", "b", "/", "g", "o", ".", "m", "o", "d">>, <<"C", "a", "r", "g", "o", ".", "t", "o", "m", "l">>, <<"a", "p", "p", ".", "c", "s", "p", "r", "o", "j">>,
    <<"v", "u", "e", ".", "c", "o", "n", "f", "i", "g", ".", "j", "s">>, <<"p", "o", "m", ".", "x", "m", "l">>, F_readme,
    <<"w", ".", "s", "l", "n", "/", "n", "o", "t", "e", "s">> }     \* a directory whose name matches *.sln

Analyzer_call ==
  /\ analysis.status \in {"none", "returned"}
  /\ \E path \in RequestPaths :
       analysis' = [NoAnalysis EXCEPT !.path = path, !.status = "called"]
  /\ UNCHANGED <<class_attrs, rewritten, tree, cwd, scandir, pc, request, config, response, earlier>>
  /\ UNCHANGED <<estimator, splitter, walker>>

Analyzer_return ==
  /\ analysis.status = "called"
  /\ analysis' = [analysis EXCEPT !.status = "returned",
                                  !.report = detect_project_type(tree, analysis.path)]
  /\ UNCHANGED <<class_attrs, rewritten, tree, cwd, scandir, pc, request, config, response, earlier>>
  /\ UNCHANGED <<estimator, splitter, walker>>

ClassifyInit ==
  /\ Imported
  /\ tree \in {fs \in SUBSET MarkerFiles : Cardinality(fs) <= MaxFiles}
  /\ cwd = ROOT_DIR
  /\ scandir = "asc"
  /\ ServerIdle
  /\ NoCalls

ClassifyNext ==
  \/ Analyzer_call
  \/ Analyzer_return

ClassifySpec == ClassifyInit /\ [][ClassifyNext]_vars

(***************************************************************************)
(* A session: conversion requests served one after another by the same     *)
(* process.  Nothing is reset between two requests: the objects of the     *)
(* request before are still what they were when the next one arrives.      *)
(***************************************************************************)
Session_request ==
  /\ pc \in {"idle", "done"}
  /\ \E format \in {"xml", "shotgun"}, exclusions \in ExclusionLists :
       request' = [name |-> "generate_repo_context", path |-> ROOT_DIR,
                   format |-> format, exclusions |-> exclusions,
                   config |-> ProjectConfig]
  /\ pc' = "pending"
  /\ earlier' = IF pc = "done" THEN earlier \cup {request.exclusions} ELSE earlier
  /\ UNCHANGED <<class_attrs, rewritten, tree, cwd, scandir, config, response>>
  /\ UNCHANGED <<estimator, splitter, analysis, walker>>

SessionInit ==
  /\ Imported
  /\ tree \in {fs \in SUBSET {F_main, F_readme, F_secret, F_image} :
                 Cardinality(fs) <= MaxFiles}
  /\ cwd = ROOT_DIR
  /\ scandir = "asc"
  /\ ServerIdle
  /\ NoCalls

SessionNext ==
  \/ Session_request
  \/ CallTool_generate_repo_context

SessionSpec == SessionInit /\ [][SessionNext]_vars

(***************************************************************************)
(* A render statement by statement, while other processes delete and       *)
(* rewrite files beneath the root.  Every step is one pass through a       *)
(* statement that asks the operating system something: os.walk scanning a  *)
(* directory, _should_include_file measuring a file, open() and read().    *)
(***************************************************************************)
RaceFiles == {F_main, F_readme, F_secret, F_vendor, F_big}

\* converter.generate_xml_format(root_path) or .generate_shotgun_format(root_path)
\* is entered; the lines before the first os.walk are appended
Walker_call ==
  /\ walker.status = "none"
  /\ \E format \in {"xml", "shotgun"} :
       walker' = [NoWalk EXCEPT
         !.format    = format,
         !.status    = "running",
         !.root_path = ROOT_DIR,
         !.phase     = IF format = "xml" THEN "structure" ELSE "contents",
         !.stack     = <<ROOT_DIR>>,
         !.lines     = IF format = "xml"
                       THEN << Text("<repo-to-text>"),
                               Arg("Directory: {basename}", Basename(ROOT_DIR)),
                               Text(""),
                               Text("<directory_structure>") >>
                       ELSE <<>>]
  /\ UNCHANGED <<class_attrs, rewritten, tree, cwd, scandir, pc, request, config, response, earlier>>
  /\ UNCHANGED <<estimator, splitter, analysis>>

\* os.walk resumes: it scans the next directory as the directory is now and
\* yields its triple, or yields nothing for a directory that is gone; in the
\* directory-structure pass the loop body then appends the directory's line
Walker_scandir ==
  /\ walker.status = "running"
  /\ walker.files = <<>> /\ ~walker.passed
  /\ walker.stack # <<>>
  /\ LET top    == Head(walker.stack)
         d      == RelPath(top, walker.root_path)
         triple == Head(WalkFrom(tree, scandir, walker.root_path, d))
         level  == Count(Remove(triple.root, walker.root_path), SEP)
     IN walker' =
          IF d # <<>> /\ d \notin DirsOf(tree)
          THEN [walker EXCEPT !.stack = Tail(@)]
          ELSE [walker EXCEPT
                 !.root  = triple.root,
                 !.files = triple.files,
                 !.stack = [i \in DOMAIN triple.dirs |-> Join(triple.root, triple.dirs[i])]
                           \o Tail(@),
                 !.lines = IF walker.phase = "structure"
                           THEN Append(@, Line("{indent}{basename}/", 2 * level,
                                               Basename(triple.root), <<>>))
                           ELSE @]
  /\ UNCHANGED <<class_attrs, rewritten, tree, cwd, scandir, pc, request, config, response, earlier>>
  /\ UNCHANGED <<estimator, splitter, analysis>>

\* the directory-structure pass, one file: the inclusion test and the append
Walker_structure_file ==
  /\ walker.status = "running"
  /\ walker.phase = "structure"
  /\ walker.files # <<>>
  /\ LET level == Count(Remove(walker.root, walker.root_path), SEP) IN
     walker' = [walker EXCEPT
       !.files = Tail(@),
       !.lines = @ \o StructureFiles(config, tree, cwd, walker.root_path, walker.root,
                                      <<Head(walker.files)>>, 2 * (level + 1))]
  /\ UNCHANGED <<class_attrs, rewritten, tree, cwd, scandir, pc, request, config, response, earlier>>
  /\ UNCHANGED <<estimator, splitter, analysis>>

\* the first os.walk is exhausted: the section is closed, the second begins
Walker_structure_end ==
  /\ walker.status = "running"
  /\ walker.phase = "structure"
  /\ walker.files = <<>> /\ walker.stack = <<>>
  /\ walker' = [walker EXCEPT
       !.phase = "contents",
       !.stack = <<walker.root_path>>,
       !.lines = @ \o <<Text("</directory_structure>"), Text("")>>]
  /\ UNCHANGED <<class_attrs, rewritten, tree, cwd, scandir, pc, request, config, response, earlier>>
  /\ UNCHANGED <<estimator, splitter, analysis>>

\* the content pass, one file: if self._should_include_file(rel_path)
Walker_check ==
  /\ walker.status = "running"
  /\ walker.phase = "contents"
  /\ walker.files # <<>> /\ ~walker.passed
  /\ LET rel_path == RelPath(Join(walker.root, Head(walker.files)), walker.root_path) IN
     walker' = IF _should_include_file(config, tree, cwd, rel_path)
               THEN [walker EXCEPT !.passed = TRUE]
               ELSE [walker EXCEPT !.files = Tail(@)]
  /\ UNCHANGED <<class_attrs, rewritten, tree, cwd, scandir, pc, request, config, response, earlier>>
  /\ UNCHANGED <<estimator, splitter, analysis>>

\* the content pass, one file: the try block that opens and reads it, and
\* its except clause
Walker_read ==
  /\ walker.status = "running"
  /\ walker.passed
  /\ LET file_path == Join(walker.root, Head(walker.files))
         rel_path  == RelPath(file_path, walker.root_path)
     IN walker' = [walker EXCEPT
          !.files  = Tail(@),
          !.passed = FALSE,
          !.lines  = @ \o (IF walker.format = "xml"
                           THEN XmlBlock(tree, file_path, rel_path)
                           ELSE ShotgunBlock(tree, file_path, rel_path))]
  /\ UNCHANGED <<class_attrs, rewritten, tree, cwd, scandir, pc, request, config, response, earlier>>
  /\ UNCHANGED <<estimator, splitter, analysis>>

\* the last os.walk is exhausted: return '\n'.join(lines)
Walker_return ==
  /\ walker.status = "running"
  /\ walker.phase = "contents"
  /\ walker.files = <<>> /\ walker.stack = <<>> /\ ~walker.passed
  /\ walker' = [walker EXCEPT
       !.status = "returned",
       !.lines  = IF walker.format = "xml" THEN Append(@, Text("</repo-to-text>")) ELSE @]
  /\ UNCHANGED <<class_attrs, rewritten, tree, cwd, scandir, pc, request, config, response, earlier>>
  /\ UNCHANGED <<estimator, splitter, analysis>>

\* another process deletes a file (and with its last file, a directory)
Env_delete ==
  /\ walker.status = "running"
  /\ Cardinality(walker.mutated) < MaxMutations
  /\ \E f \in tree :
       /\ tree' = tree \ {f}
       /\ walker' = [walker EXCEPT !.mutated = @ \cup {f}]
  /\ UNCHANGED <<class_attrs, rewritten, cwd, scandir, pc, request, config, response, earlier>>
  /\ UNCHANGED <<estimator, splitter, analysis>>

\* another process rewrites a file
Env_rewrite ==
  /\ walker.status = "running"
  /\ Cardinality(walker.mutated) < MaxMutations
  /\ \E f \in tree \ rewritten :
       /\ rewritten' = rewritten \cup {f}
       /\ walker' = [walker EXCEPT !.mutated = @ \cup {f}]
  /\ UNCHANGED <<class_attrs, tree, cwd, scandir, pc, request, config, response, earlier>>
  /\ UNCHANGED <<estimator, splitter, analysis>>

RaceInit ==
  /\ Imported
  /\ tree \in {fs \in SUBSET RaceFiles : Cardinality(fs) <= MaxFiles}
  /\ cwd \in {ROOT_DIR, OTHER_DIR}
  /\ scandir = "asc"
  /\ ServerIdle
  /\ NoCalls

RaceNext ==
  \/ Walker_call
  \/ Walker_scandir
  \/ Walker_structure_file
  \/ Walker_structure_end
  \/ Walker_check
  \/ Walker_read
  \/ Walker_return
  \/ Env_delete
  \/ Env_rewrite

RaceSpec == RaceInit /\ [][RaceNext]_vars

(***************************************************************************)
(* The converter on a root that holds symbolic links.                      *)
(***************************************************************************)
LinkInit ==
  /\ Imported
  /\ tree \in {fs \in SUBSET ({F_main, F_readme, F_secret} \cup Links) :
                 Cardinality(fs) <= MaxFiles}
  /\ cwd \in {ROOT_DIR, OTHER_DIR}
  /\ scandir \in {"asc", "desc"}
  /\ ServerIdle
  /\ NoCalls

LinkNext ==
  \/ Request_converter
  \/ Converter_render

LinkSpec == LinkInit /\ [][LinkNext]_vars

(***************************************************************************)
(* generate_repo_context on roots with nested directories, one of them     *)
(* named like the root, and with the root spelled either way.              *)
(***************************************************************************)
IndentInit ==
  /\ Imported
  /\ tree \in SUBSET {F_main, F_vendor, F_nested, F_readme}
  /\ cwd \in {ROOT_DIR, OTHER_DIR}
  /\ scandir \in {"asc", "desc"}
  /\ ServerIdle
  /\ NoCalls

IndentNext ==
  \/ Request_generate_repo_context
  \/ CallTool_generate_repo_context

IndentSpec == IndentInit /\ [][IndentNext]_vars

(***************************************************************************)
(* The types of the variables, in every specification of the module.       *)
(***************************************************************************)
TypeOK ==
  /\ class_attrs \in ClassAttrsType
  /\ rewritten \subseteq Universe
  /\ tree \subseteq Universe \cup Links \cup {F_nested} \cup MarkerFiles
  /\ cwd \in {ROOT_DIR, OTHER_DIR}
  /\ scandir \in {"asc", "desc"}
  /\ pc \in {"idle", "pending", "done"}
  /\ request \in RequestType
  /\ config \in ConfigType
  /\ response \in ResponseType
  /\ earlier \subseteq ExclusionLists
  /\ estimator \in EstimatorType
  /\ splitter \in SplitterType
  /\ analysis \in AnalysisType
  /\ walker \in WalkerType

(***************************************************************************)
(* Vocabulary of the properties                                            *)
(***************************************************************************)
\* the request asked for a render of this format and the handler rendered
RenderDone(format) ==
  /\ pc = "done"
  /\ request.name \in {"generate_repo_context", "RepoToTextConverter"}
  /\ request.format = format
  /\ Exists(tree, request.path)

AnyRenderDone == RenderDone("xml") \/ RenderDone("shotgun")

\* the decision of the converter serving the request for a file of the tree
Included(p) == _should_include_file(config, tree, cwd, p)

IsDirLine(l)      == l.t = "{indent}{basename}/"
IsFileLine(l)     == l.t = "{sub_indent}{file}"
IsContentOpen(l)  == l.t = "<content full_path=\"{rel_path}\">"
IsRaw(l)          == l.t = "{content}"
IsContentClose(l) == l.t = "</content>"
IsErrorLine(l)    == l.t = "<!-- Error reading {rel_path}: {str(e)} -->"
IsBegin(l)        == l.t = "*#*#*{rel_path}*#*#*begin*#*#*"
IsEnd(l)          == l.t = "*#*#*end*#*#*"
IsBlockOpen(l)    == IsContentOpen(l) \/ IsBegin(l)

\* how many blocks of the document open with path p
BlockCount(doc, p) ==
  Cardinality({i \in DOMAIN doc : IsBlockOpen(doc[i]) /\ doc[i].a = p})

\* whether the directory-structure section lists a file, or a directory, by name
ListsFile(doc, p) == \E i \in DOMAIN doc : IsFileLine(doc[i]) /\ doc[i].a = Basename(p)
ListsDir(doc, d)  == \E i \in DOMAIN doc : IsDirLine(doc[i]) /\ doc[i].a = Basename(d)

\* some pattern of the list matches, by glob or by substring
MatchesSome(p, patterns) ==
  \E i \in DOMAIN patterns :
    fnmatch(p, patterns[i]) \/ Contains(patterns[i], p)

\* the files of the tree in the order os.walk reaches them
RECURSIVE FilesOfWalk(_, _)
FilesOfWalk(walk, root_path) ==
  IF walk = <<>> THEN <<>>
  ELSE [i \in DOMAIN Head(walk).files |->
          RelPath(Join(Head(walk).root, Head(walk).files[i]), root_path)]
       \o FilesOfWalk(Tail(walk), root_path)

Traversal == FilesOfWalk(Walk(tree, scandir, request.path), request.path)

\* the files beneath the root of the request
Walked == {Traversal[i] : i \in DOMAIN Traversal}

(***************************************************************************)
(* C1.  The inclusion decision for a path is "excluded" if and only if the *)
(* path matches some exclusion rule (glob or substring), or its guessed    *)
(* media type exists and is not textual, or its on-disk size exceeds       *)
(* max_file_size, or include patterns are given and it matches none.       *)
(* The code never reads include_patterns, and it measures the size of      *)
(* whatever the relative path names from the working directory.            *)
(***************************************************************************)
C1_DecisionIffRules ==
  AnyRenderDone =>
    \A p \in Walked :
      ~Included(p) <=>
        \/ MatchesSome(p, config.exclude_patterns \o DEFAULT_EXCLUSIONS)
        \/ NonTextType(p)
        \/ FileSize(p) > config.max_file_size
        \/ (config.include_patterns # <<>> /\ ~MatchesSome(p, config.include_patterns))

(***************************************************************************)
(* C2.  A root holding src/main.txt (50 bytes), node_modules/dep.js and    *)
(* image.png, rendered with the default configuration in the tagged-block  *)
(* format, gives exactly one content block, for src/main.txt; the          *)
(* directory-structure section lists src/ and main.txt, and neither        *)
(* dep.js nor image.png.                                                   *)
(***************************************************************************)
C2_Scenario ==
  /\ RenderDone("xml")
  /\ request.path = ROOT_DIR
  /\ request.exclusions = <<>>
  /\ request.config = ProjectConfig
  /\ tree = {F_main, F_dep, F_image}

C2_ScenarioRender ==
  C2_Scenario =>
    LET doc == response.text IN
    /\ Cardinality({i \in DOMAIN doc : IsContentOpen(doc[i])}) = 1
    /\ BlockCount(doc, F_main) = 1
    /\ ListsDir(doc, Dirname(F_main))
    /\ ListsFile(doc, F_main)
    /\ ~ListsFile(doc, F_dep)
    /\ ~ListsFile(doc, F_image)

(***************************************************************************)
(* C3.  Every file judged included appears exactly once as a content block *)
(* in the tagged-block render and exactly once as a begin/end block in the *)
(* delimiter-block render, and no excluded file appears as a block.        *)
(* As stated this fails for an included file that cannot be opened; it     *)
(* holds of the included files whose read succeeds.                        *)
(***************************************************************************)
C3_IncludedExactlyOnce ==
  AnyRenderDone =>
    \A p \in Walked : BlockCount(response.text, p) = IF Included(p) THEN 1 ELSE 0

\* C3 as amended: a file has exactly one block when it is included and its
\* read succeeds, and none otherwise; every block is a file beneath the root
C3_ReadableIncludedExactlyOnce ==
  AnyRenderDone =>
    /\ \A p \in Walked :
         BlockCount(response.text, p) = IF Included(p) /\ Readable(p) THEN 1 ELSE 0
    /\ \A i \in DOMAIN response.text :
         IsBlockOpen(response.text[i]) => response.text[i].a \in Walked

C3_Witness ==
  /\ RenderDone("shotgun")
  /\ \E p \in Walked : Included(p) /\ Readable(p)
  /\ \E p \in Walked : Included(p) /\ ~Readable(p)
  /\ \E p \in Walked : ~Included(p)

(***************************************************************************)
(* C4.  When an exclusion rule ends in "/", nothing beneath a directory of *)
(* that name is reported: no directory beneath it is listed in the         *)
(* directory-structure section and no file beneath it is listed or         *)
(* rendered.  The code walks the whole tree and lists every directory.     *)
(***************************************************************************)
\* the directory names that the rules ending in "/" name
PrunedNames(patterns) ==
  {SubSeq(patterns[i], 1, Len(patterns[i]) - 1) :
     i \in {j \in DOMAIN patterns : EndsWith(patterns[j], <<SEP>>)}}

\* x lies beneath a directory with one of these names
Beneath(x, names) == \E d \in Ancestors(x) : Basename(d) \in names

C4_NoDescent ==
  RenderDone("xml") /\ NormPath(request.path) = ROOT_DIR =>
    LET names == PrunedNames(config.exclude_patterns \o DEFAULT_EXCLUSIONS)
        doc   == response.text
    IN /\ \A d \in DirsOf(tree) : Beneath(d, names) => ~ListsDir(doc, d)
       /\ \A p \in Walked : Beneath(p, names) => ~ListsFile(doc, p) /\ BlockCount(doc, p) = 0

(***************************************************************************)
(* C5.  With include_patterns non-empty, a path matching none of them is   *)
(* left out of the directory-structure listing and of the content blocks.  *)
(* The code never reads include_patterns.                                  *)
(***************************************************************************)
C5_IncludePatternsRestrict ==
  AnyRenderDone /\ config.include_patterns # <<>> =>
    \A p \in Walked :
      ~MatchesSome(p, config.include_patterns) =>
        ~ListsFile(response.text, p) /\ BlockCount(response.text, p) = 0

(***************************************************************************)
(* C6.  The delimiter-block render is, for each included file in traversal *)
(* order, the begin line carrying its relative path, its raw content, the  *)
(* end line and a blank separator, and nothing else.  As stated this fails *)
(* for an included file that cannot be opened, for which nothing is        *)
(* emitted; it holds of the included files whose read succeeds.            *)
(***************************************************************************)
\* the document that lists exactly these files, four entries each
IsBlockSequence(doc, paths) ==
  /\ Len(doc) = 4 * Len(paths)
  /\ \A k \in DOMAIN paths :
       /\ IsBegin(doc[4 * k - 3]) /\ doc[4 * k - 3].a = paths[k]
       /\ IsRaw(doc[4 * k - 2]) /\ doc[4 * k - 2].a = FileContent(paths[k])
       /\ IsEnd(doc[4 * k - 1])
       /\ doc[4 * k].t = ""

IncludedAndRead(p) == Included(p) /\ Readable(p)

C7_MarkerOrder ==
  RenderDone("xml") =>
    LET doc   == response.text
        last  == Len(doc)
        opens  == {i \in DOMAIN doc : doc[i].t = "<directory_structure>"}
        closes == {i \in DOMAIN doc : doc[i].t = "</directory_structure>"}
    IN /\ last >= 2
       /\ {i \in DOMAIN doc : doc[i].t = "<repo-to-text>"} = {1}
       /\ {i \in DOMAIN doc : doc[i].t = "</repo-to-text>"} = {last}
       /\ Cardinality(opens) = 1
       /\ Cardinality(closes) = 1
       /\ \A o \in opens, c \in closes :
            /\ o < c
            /\ \A i \in (o + 1)..(c - 1) : IsDirLine(doc[i]) \/ IsFileLine(doc[i])
            /\ \A i \in DOMAIN doc :
                 IsDirLine(doc[i]) \/ IsFileLine(doc[i]) => o < i /\ i < c
            /\ \A i \in DOMAIN doc :
                 IsContentOpen(doc[i]) \/ IsRaw(doc[i]) \/ IsContentClose(doc[i])
                   \/ IsErrorLine(doc[i]) => c < i /\ i < last
       /\ \A i \in DOMAIN doc :
            /\ IsContentOpen(doc[i]) =>
                 /\ doc[i].a \in Walked
                 /\ i + 2 < last
                 /\ IsRaw(doc[i + 1])
                 /\ IsContentClose(doc[i + 2])
            /\ IsRaw(doc[i]) => i > 1 /\ IsContentOpen(doc[i - 1])
            /\ IsContentClose(doc[i]) => i > 1 /\ IsRaw(doc[i - 1])

C7_Witness ==
  /\ RenderDone("xml")
  /\ Cardinality({i \in DOMAIN response.text : IsContentOpen(response.text[i])}) >= 2
  /\ \E i \in DOMAIN response.text : IsErrorLine(response.text[i])
  /\ \E i \in DOMAIN response.text : IsFileLine(response.text[i])

(***************************************************************************)
(* C8.  In both formats, when reading an included file fails, the output   *)
(* holds an inline marker naming that file, and every other included file  *)
(* is still rendered.  The delimiter-block renderer skips the file without *)
(* a trace.                                                                *)
(***************************************************************************)
C8_ReadFailureMarked ==
  AnyRenderDone =>
    \A p \in Walked :
      Included(p) /\ ~Readable(p) =>
        /\ \E i \in DOMAIN response.text :
             IsErrorLine(response.text[i]) /\ response.text[i].a = p
        /\ \A q \in Walked : Included(q) /\ Readable(q) => BlockCount(response.text, q) = 1

(***************************************************************************)
(* C9.  generate_repo_context with any format other than "shotgun" (a      *)
(* missing format, "markdown", any other string) returns what format "xml" *)
(* returns for the same path and exclusions.                               *)
(***************************************************************************)
\* what the handler returns when asked for "xml"
XmlAnswer(path, exclusions) ==
  IF ~Exists(tree, path) THEN PathError(path)
  ELSE generate_xml_format([ProjectConfig EXCEPT !.exclude_patterns = exclusions],
                           tree, cwd, scandir, path)

C9_FallbackToXml ==
  pc = "done" /\ request.name = "generate_repo_context" /\ request.format # "shotgun" =>
    response = Returned(XmlAnswer(request.path, request.exclusions))

C9_Witness ==
  /\ pc = "done"
  /\ request.name = "generate_repo_context"
  /\ request.format = "bogus"
  /\ request.exclusions # <<>>
  /\ \E i \in DOMAIN response.text : IsContentOpen(response.text[i])
  /\ \E p \in Walked : ~Included(p)

(***************************************************************************)
(* C10.  When the root path of generate_repo_context or analyze_project    *)
(* does not exist, or exists and is not a directory, the caller gets a     *)
(* descriptive failure and no document.  The handlers test os.path.exists  *)
(* alone, so a regular file passes and an empty document is returned.      *)
(***************************************************************************)
C10_InvalidRootFails ==
  /\ pc = "done"
  /\ request.name \in {"generate_repo_context", "analyze_project"}
  /\ ~IsDir(tree, request.path)
  => response = Returned(PathError(request.path))
(***************************************************************************)
(* C11.  For every text and provider name, the estimated token count is    *)
(* floor(len(text) / ratio), ratio being 4.0 for openai, google and        *)
(* generic and 4.5 for anthropic (names compared without regard to case),  *)
(* and the generic 4.0 for any other name; 4000 characters with provider   *)
(* openai give 1000.                                                       *)
(***************************************************************************)
C11_TokenCount ==
  estimator.status = "returned" =>
    LET n    == Len(estimator.text)
        name == Lower(estimator.provider)
    IN estimator.tokens =
         CASE name \in {<<"o", "p", "e", "n", "a", "i">>, <<"g", "o", "o", "g", "l", "e">>, <<"g", "e", "n", "e", "r", "i", "c">>} -> n \div 4
           [] name = <<"a", "n", "t", "h", "r", "o", "p", "i", "c">> -> (2 * n) \div 9
           [] OTHER -> n \div 4

C11_Witness ==
  /\ estimator.status = "returned"
  /\ Len(estimator.text) = 4000
  /\ estimator.provider = <<"o", "p", "e", "n", "a", "i">>
  /\ estimator.tokens = 1000

(***************************************************************************)
(* Vocabulary of the properties of the section splitter                    *)
(***************************************************************************)
\* the buckets in their priority order
PRIORITY ==
  << "overview", "architecture_changes", "implementation_steps", "file_modifications",
     "code_examples", "testing_strategy", "potential_issues" >>

Buckets == {PRIORITY[i] : i \in DOMAIN PRIORITY}

\* the trigger keywords of a bucket
Keywords(b) ==
  CASE b = "overview"             -> {<<"o", "v", "e", "r", "v", "i", "e", "w">>}
    [] b = "architecture_changes" -> {<<"a", "r", "c", "h", "i", "t", "e", "c", "t", "u", "r", "e">>}
    [] b = "implementation_steps" -> {<<"i", "m", "p", "l", "e", "m", "e", "n", "t", "a", "t", "i", "o", "n">>, <<"s", "t", "e", "p">>}
    [] b = "file_modifications"   -> {<<"f", "i", "l", "e">>, <<"m", "o", "d", "i", "f">>}
    [] b = "code_examples"        -> {<<"c", "o", "d", "e">>, <<"e", "x", "a", "m", "p", "l", "e">>}
    [] b = "testing_strategy"     -> {<<"t", "e", "s", "t">>}
    [] b = "potential_issues"     -> {<<"i", "s", "s", "u", "e">>}

\* the buckets, by rank, whose keyword condition a line satisfies
Candidates(line) ==
  {i \in DOMAIN PRIORITY : \A k \in Keywords(PRIORITY[i]) : Contains(k, Lower(line))}

\* the lines of the response being split, and those that open bucket b
InputLines == Split(splitter.response)
HeadingsOf(b) == {i \in DOMAIN InputLines : HeaderOf(InputLines[i]) = b}

\* what a bucket shows of a list of lines
Shown(b, ls) ==
  IF b \in {"overview", "testing_strategy"} THEN Strip(JoinLines(ls)) ELSE ls

(***************************************************************************)
(* C12.  After the split, each bucket whose heading occurs holds exactly   *)
(* the non-heading lines between the last heading line recognized for it   *)
(* and the next recognized heading or the end of the input (joined and     *)
(* trimmed for overview and testing_strategy, a list otherwise); a bucket  *)
(* whose heading occurs again with no body lines after it ends empty.      *)
(* The code empties current_content at a heading but leaves the bucket's   *)
(* entry of sections as it was until the next body line.                   *)
(***************************************************************************)
C12_LastHeadingWins ==
  splitter.status = "returned" =>
    \A b \in Buckets :
      HeadingsOf(b) # {} =>
        LET last == CHOOSE i \in HeadingsOf(b) : \A j \in HeadingsOf(b) : j <= i
            stop == CHOOSE i \in (last + 1)..(Len(InputLines) + 1) :
                      /\ i = Len(InputLines) + 1 \/ HeaderOf(InputLines[i]) # None
                      /\ \A j \in (last + 1)..(i - 1) : HeaderOf(InputLines[j]) = None
        IN splitter.sections[b] = Shown(b, SubSeq(InputLines, last + 1, stop - 1))

(***************************************************************************)
(* C13.  A line that starts with '#' and satisfies the keyword conditions  *)
(* of one or several buckets (keywords compared without regard to case)    *)
(* makes exactly the earliest of them in the priority order the current    *)
(* bucket.                                                                 *)
(***************************************************************************)
C13_FirstInPriorityWins ==
  (splitter.status # "none" /\ splitter.line_no > 1) =>
    LET line == InputLines[splitter.line_no - 1] IN
    (StartsWith(line, <<"#">>) /\ Candidates(line) # {}) =>
      splitter.current_section =
        PRIORITY[CHOOSE i \in Candidates(line) : \A j \in Candidates(line) : i <= j]

C13_Witness ==
  /\ splitter.status = "called"
  /\ splitter.line_no > 1
  /\ StartsWith(InputLines[splitter.line_no - 1], <<"#">>)
  /\ Cardinality(Candidates(InputLines[splitter.line_no - 1])) > 1
  /\ splitter.current_section = "testing_strategy"

(***************************************************************************)
(* C14.  A line that matches no heading condition is appended to the       *)
(* accumulator of the current bucket, which then shows it, and leaves      *)
(* every other bucket and the current-bucket pointer unchanged; while no   *)
(* bucket is current it changes nothing, so that as long as no heading has *)
(* been recognized every bucket is empty, and a bucket whose heading never *)
(* occurs in the input is empty in the result.                             *)
(***************************************************************************)
C14_BodyLineStep ==
  (splitter.status = "called" /\ splitter'.line_no = splitter.line_no + 1
     /\ HeaderOf(InputLines[splitter.line_no]) = None) =>
    LET line == InputLines[splitter.line_no]
        cur  == splitter.current_section
    IN /\ splitter'.current_section = cur
       /\ \A b \in Buckets \ {cur} : splitter'.sections[b] = splitter.sections[b]
       /\ cur = None =>
            /\ splitter'.sections = splitter.sections
            /\ splitter'.current_content = splitter.current_content
       /\ cur # None =>
            /\ splitter'.current_content = Append(splitter.current_content, line)
            /\ splitter'.sections[cur] = Shown(cur, splitter'.current_content)

C14_UnopenedEmpty ==
  /\ (splitter.status = "called"
        /\ \A i \in 1..(splitter.line_no - 1) : HeaderOf(InputLines[i]) = None)
       => splitter.sections = EmptySections
  /\ splitter.status = "returned" =>
       \A b \in Buckets : HeadingsOf(b) = {} => splitter.sections[b] = <<>>

C14_OnlyCurrentBucket == [][C14_BodyLineStep]_vars /\ []C14_UnopenedEmpty

C14_Witness ==
  /\ splitter.status = "returned"
  /\ Len(InputLines) = 3
  /\ HeaderOf(InputLines[1]) = None
  /\ HeaderOf(InputLines[2]) = "architecture_changes"
  /\ HeaderOf(InputLines[3]) = None
  /\ splitter.sections = [EmptySections EXCEPT !.architecture_changes = <<InputLines[3]>>]

(***************************************************************************)
(* C15.  Project classification reports a type tag exactly when one of the *)
(* tag's marker patterns matches the name of an entry (a file, or a        *)
(* directory) somewhere beneath the root; the detected tags come in the    *)
(* declaration order python, node, react, vue, go, rust, java, dotnet,     *)
(* none repeated; main_type is the first detected tag, or "generic" when   *)
(* none is detected.                                                       *)
(***************************************************************************)
DECLARED == <<"python", "node", "react", "vue", "go", "rust", "java", "dotnet">>

\* the entries beneath the root a classification was asked for
Beneath_root ==
  IF NormPath(analysis.path) = ROOT_DIR THEN tree \cup DirsOf(tree) ELSE {}

\* the marker patterns of a tag
MarkersOf(tag) ==
  LET row == CHOOSE i \in DOMAIN indicators : indicators[i][1] = tag
  IN {indicators[row][2][j] : j \in DOMAIN indicators[row][2]}

C16_RequestsIsolated ==
  /\ class_attrs = [DEFAULT_EXCLUSIONS |-> DEFAULT_EXCLUSIONS,
                    TOKEN_RATIOS |-> TOKEN_RATIOS]
  /\ AnyRenderDone =>
       LET own == [ProjectConfig EXCEPT !.exclude_patterns = request.exclusions] IN
       /\ config = own
       /\ response.text = RenderAs(request.format, own, tree, cwd, scandir, request.path)

C16_Witness ==
  /\ RenderDone("xml")
  /\ << <<"*", ".", "t", "x", "t">> >> \in earlier
  /\ << <<"s", "r", "c", "/">> >> \in earlier
  /\ request.exclusions = <<>>
  /\ F_main \in tree
  /\ BlockCount(response.text, F_main) = 1

(***************************************************************************)
(* C17.  When other processes delete or rewrite files beneath the root     *)
(* during a render, the render still returns a whole document (the         *)
(* tagged-block one with its root-open and root-close markers) in which    *)
(* every included file they did not touch is rendered: as a block or, when *)
(* it could not be read, as an inline marker.                              *)
(* The delimiter-block render drops an untouched file it cannot open       *)
(* without a trace, as it does with no other process at work (C8).         *)
(***************************************************************************)
\* the document renders p: as a block, or as an inline error marker
Renders(doc, p) ==
  \/ BlockCount(doc, p) = 1
  \/ \E i \in DOMAIN doc : IsErrorLine(doc[i]) /\ doc[i].a = p

C17_MutationIsSoftFailure ==
  walker.status = "returned" =>
    /\ walker.format = "xml" =>
         /\ Head(walker.lines) = Text("<repo-to-text>")
         /\ walker.lines[Len(walker.lines)] = Text("</repo-to-text>")
    /\ \A p \in tree \ walker.mutated :
         _should_include_file(config, tree, cwd, p) => Renders(walker.lines, p)


(***************************************************************************)
(* C18.  Every symbolic link beneath the root is skipped: the link is not  *)
(* listed in the directory-structure section, no block is rendered for it  *)
(* and no directory line stands for it, whether it leads to a file, to a   *)
(* directory or to nothing; and the walk goes on over the other entries,   *)
(* so that every included file that can be read has its block.             *)
(* os.walk hands a link to a file over in `files` like any other file, and *)
(* getsize and open follow it.                                             *)
(***************************************************************************)
C18_LinksSkipped ==
  AnyRenderDone =>
    /\ \A l \in tree \cap Links :
         /\ ~ListsFile(response.text, l)
         /\ ~ListsDir(response.text, l)
         /\ ~Renders(response.text, l)
    /\ \A p \in tree \ Links :
         Included(p) /\ Readable(p) => BlockCount(response.text, p) = 1


(***************************************************************************)
(* C19.  The directory-structure section of the tagged-block document      *)
(* shows each directory at depth d below the root, the root at depth 0, as *)
(* its name and "/" behind 2*d spaces, and each listed file of it behind   *)
(* 2*(d+1) spaces, however the root path is spelled and whatever the       *)
(* directories are called.                                                 *)
(* The level is counted in what is left of the directory's path after      *)
(* every occurrence of the text of the root path is taken out of it.       *)
(***************************************************************************)
\* the depth of a directory given by its root-relative path
Depth(d) == IF d = <<>> THEN 0 ELSE Count(d, SEP) + 1

\* the lines of the files of one directory that the converter includes
RECURSIVE C19_FileLines(_, _, _)
C19_FileLines(d, files, n) ==
  IF files = <<>> THEN <<>>
  ELSE (IF Included(IF d = <<>> THEN Head(files) ELSE d \o <<SEP>> \o Head(files))
        THEN <<Line("{sub_indent}{file}", n, Head(files), <<>>)>>
        ELSE <<>>)
       \o C19_FileLines(d, Tail(files), n)

\* the section as the claim describes it, for the triples of os.walk
RECURSIVE C19_Section(_, _)
C19_Section(top, walk) ==
  IF walk = <<>> THEN <<>>
  ELSE LET d == RelPath(Head(walk).root, top) IN
       << Line("{indent}{basename}/", 2 * Depth(d),
               Basename(IF d = <<>> THEN NormPath(top) ELSE d), <<>>) >>
       \o C19_FileLines(d, Head(walk).files, 2 * (Depth(d) + 1))
       \o C19_Section(top, Tail(walk))

C19_IndentByDepth ==
  RenderDone("xml") =>
    LET section == C19_Section(request.path, Walk(tree, scandir, request.path)) IN
    /\ Len(response.text) >= 4 + Len(section)
    /\ SubSeq(response.text, 5, 4 + Len(section)) = section


(***************************************************************************)
(* C20.  The size ceiling is applied to the file beneath the root that is  *)
(* being converted: a file is included exactly when no exclusion matches   *)
(* it, its type is not a non-text one and the size of that file is within  *)
(* the ceiling; and a render of the same tree with the same configuration  *)
(* from any other working directory renders the same set of files.         *)
(* getsize is given the root-relative path, which the operating system     *)
(* resolves against the working directory of the process.                  *)
(***************************************************************************)
\* the files of the tree for which a document has a block
RenderedFiles(doc) == {p \in tree : BlockCount(doc, p) >= 1}

C20_SizeTestAtRoot ==
  AnyRenderDone =>
    /\ \A p \in tree :
         Included(p) <=> /\ ~ExcludedByConfig(config, p)
                         /\ ~NonTextType(p)
                         /\ FileSize(p) <= config.max_file_size
    /\ \A wd \in {ROOT_DIR, OTHER_DIR} :
         RenderedFiles(IF request.format = "shotgun"
                       THEN generate_shotgun_format(config, tree, wd, scandir, request.path)
                       ELSE generate_xml_format(config, tree, wd, scandir, request.path))
           = RenderedFiles(response.text)

=============================================================================
